---- MODULE Spec2Model ----
(***************************************************************************)
(* State-machine model of the realtime session manager of the English      *)
(* tutoring client (components/ConversationView.tsx) together with the     *)
(* part of the presentation shell (App.tsx) that receives its final        *)
(* transcript.                                                             *)
(*                                                                         *)
(* The component is single threaded and event driven: every action below   *)
(* is one event handler (or one synchronous stretch of the async function  *)
(* startConversation between two awaits) run to completion.  Handlers are  *)
(* written as operators from a record of the component's cells to the      *)
(* record after the handler, in the order of the source's statements.      *)
(* Text is a sequence of one-character strings.                            *)
(***************************************************************************)
EXTENDS Bags, FiniteSets, Integers, Sequences, TLC

\* ------------------------------------------------------------------ bounds
\* sessions (and capture streams) created over one run, in every
\* specification but SpecRace, SpecRecap and SpecShell
MaxConnects == 1
\* the same in SpecRace (overlapping connects)
RaceMaxConnects == 3
\* the same in SpecRecap (a first session and one reconnect) and in
\* SpecShell (two lessons)
RecapMaxConnects == 2
\* lessons started over one run, in SpecShell
MaxLessons == 2
\* committed transcript entries, in SpecRace, SpecRecap, SpecAudio and SpecFeedback
SessionMaxLog == 1
\* the same in SpecTurn
MaxLog == 2
\* callbacks a session still delivers after close() was issued on it
\* (those in flight at teardown)
MaxStale == 1
\* readings of a playback context's clock, and of the playback cursor, in
\* SpecAudio
MaxTime == 3
\* readings of the wall clock (Date.now) in SpecIds
MaxNow == 2

\* --------------------------------------------------------- program constants
MAX_RECONNECT_ATTEMPTS == 3

PARTING_WORDS ==
  { <<"g","o","o","d","b","y","e">>,
    <<"g","o","o","d"," ","b","y","e">>,
    <<"s","e","e"," ","y","o","u">>,
    <<"l","e","s","s","o","n"," ","i","s"," ","o","v","e","r">> }

\* ------------------------------------------------------------------- inputs
EmptyText == <<>>
UserTexts == { EmptyText, <<"h","i">> }
TutorTexts == { EmptyText, <<"O","k">>, <<"G","o","o","d","B","y","e","!">> }

\* durations of decoded audio buffers
Durations == { 1, 2 }

\* An inbound LiveServerMessage: which of the independent signals it carries.
\* audio "bad" is an audio payload whose decoding raises; audio "ok" decodes
\* to a buffer of duration dur.
Messages ==
  { m \in [ hasIn : BOOLEAN, inText : UserTexts,
            hasOut : BOOLEAN, outText : TutorTexts,
            turnComplete : BOOLEAN, audio : {"none", "bad", "ok"},
            dur : Durations \cup {0} ] :
      /\ (~m.hasIn => m.inText = EmptyText)
      /\ (~m.hasOut => m.outText = EmptyText)
      /\ (m.dur # 0 <=> m.audio = "ok") }

\* The message of Spec: an audio payload that fails to decode.
FaultMessages ==
  { m \in Messages :
      ~m.hasIn /\ ~m.hasOut /\ ~m.turnComplete /\ m.audio = "bad" }

\* The messages of SpecRecap: an audio payload that fails to decode, and a
\* closing tutor turn carried by one message.
SessionMessages ==
  { m \in Messages :
      /\ ~m.hasIn
      /\ \/ ~m.hasOut /\ ~m.turnComplete /\ m.audio = "bad"
         \/ /\ m.hasOut /\ m.turnComplete /\ m.audio = "none"
            /\ m.outText = <<"G","o","o","d","B","y","e","!">> }

\* The message of SpecFeedback: the closing tutor turn.
ClosingMessages == { m \in SessionMessages : m.turnComplete }

\* The messages of SpecTurn: the transcript signals, without audio.
TurnMessages == { m \in Messages : m.audio = "none" }

\* The messages of SpecAudio: audio payloads that decode, alone or with a
\* closing tutor turn.
AudioMessages ==
  { m \in Messages :
      /\ ~m.hasIn /\ m.audio = "ok"
      /\ \/ ~m.hasOut /\ ~m.turnComplete
         \/ /\ m.hasOut /\ m.turnComplete
            /\ m.outText = <<"G","o","o","d","B","y","e","!">> }

\* Partial transcriptions alone: the server sends them independently of the
\* other signals.
PartialMessages ==
  { m \in TurnMessages :
      /\ ~m.turnComplete
      /\ m.hasIn # m.hasOut
      /\ m.hasIn => m.inText # EmptyText
      /\ m.hasOut => m.outText # EmptyText }

NoMsg ==
  [ hasIn |-> FALSE, inText |-> EmptyText, hasOut |-> FALSE,
    outText |-> EmptyText, turnComplete |-> FALSE, audio |-> "none",
    dur |-> 0 ]

\* -------------------------------------------------------------------- state
VARIABLES
  appState,                   \* App: which view is shown
  lessonMaterial,             \* App: lesson material held (FALSE: null)
  finalTranscript,            \* App: transcript handed to the feedback view
  endedCount,                 \* number of onEndLesson invocations so far
  phase,                      \* ConversationView: constructed, mounted, or
                              \*   unmounted (not in the tree)
  connectionState,
  reconnectAttempts,
  sessionPromise,             \* 0 (null) or the id of the session held
  mediaStream,                \* 0 (null) or the id of the capture stream held
  mediaStreamSource,          \* node held?
  scriptProcessor,            \* node held?
  inputAudioContext,          \* "null", "running", "closed"
  outputAudioContext,         \* "null", "running", "closed"
  audioSources,               \* tracked playback sources, each by the start
                              \*   time and duration it was started with
  nextStartTime,              \* playback cursor
  currentTime,                \* clock of the context outputAudioContext holds
  now,                        \* the wall clock, as Date.now() reads it
  transcriptionHistory,       \* the committed log
  latestTranscriptionHistory, \* ref: the log as of the last effect run
  currentUserTranscriptRef,   \* student partial buffer
  currentGeminiTranscriptRef, \* tutor partial buffer
  sessions,                   \* transport: every session created, by id
  streams,                    \* hardware: every capture stream acquired, by id
  mediaPending,               \* startConversation runs awaiting getUserMedia
  backoffTimers,              \* bag of pending backoff timers (delay in ms)
  endTimers,                  \* pending end-of-lesson timers (their newHistory)
  feedbackEffectDue,          \* FeedbackView: its effect on [history] is due
  feedbackCalls,              \* generateFeedback invocations so far
  feedbackRequests,           \* generateContent requests made so far
  feedbackPending,            \* generateContent requests in flight
  feedback,                   \* FeedbackView: the text shown ("" while none)
  isLoading,                  \* FeedbackView: restart button disabled
  failuresInRow,              \* history: failure-path runs since the last open,
                              \*   counted up to one past the maximum
  turnCommitted,              \* history: the last step handled a turn-complete
  lastUserPartial,            \* history: latest student partial received in
                              \*   the turn in progress, or in the turn just
                              \*   committed (empty if none)
  lastTutorPartial,           \* history: the same for the tutor
  played,                     \* history: by session, the end time of the last
                              \*   buffer its messages started (0 if none)
  turnClosedOn,               \* history: the session whose turn-complete was
                              \*   handled most recently (0 if none)
  latePartial,                \* history: the last step handled a partial of a
                              \*   turn that was already closed
  lessons                     \* history: lessons started so far

cells ==
  << appState, lessonMaterial, finalTranscript, endedCount, phase,
     connectionState,
     reconnectAttempts, sessionPromise, mediaStream, mediaStreamSource,
     scriptProcessor, inputAudioContext, outputAudioContext, audioSources,
     nextStartTime, currentTime, now, transcriptionHistory,
     latestTranscriptionHistory,
     currentUserTranscriptRef,
     currentGeminiTranscriptRef, sessions, streams, mediaPending,
     backoffTimers, endTimers, feedbackEffectDue, feedbackCalls,
     feedbackRequests, feedbackPending, feedback, isLoading >>

hist ==
  << failuresInRow, turnCommitted, lastUserPartial, lastTutorPartial, played,
     turnClosedOn, latePartial, lessons >>

vars == << cells, hist >>

\* The cells as one record, the argument and result of every handler.
Cur ==
  [ appState |-> appState, lessonMaterial |-> lessonMaterial,
    finalTranscript |-> finalTranscript,
    endedCount |-> endedCount, phase |-> phase,
    connectionState |-> connectionState,
    reconnectAttempts |-> reconnectAttempts,
    sessionPromise |-> sessionPromise, mediaStream |-> mediaStream,
    mediaStreamSource |-> mediaStreamSource,
    scriptProcessor |-> scriptProcessor,
    inputAudioContext |-> inputAudioContext,
    outputAudioContext |-> outputAudioContext,
    audioSources |-> audioSources, nextStartTime |-> nextStartTime,
    currentTime |-> currentTime, now |-> now,
    transcriptionHistory |-> transcriptionHistory,
    latestTranscriptionHistory |-> latestTranscriptionHistory,
    currentUserTranscriptRef |-> currentUserTranscriptRef,
    currentGeminiTranscriptRef |-> currentGeminiTranscriptRef,
    sessions |-> sessions, streams |-> streams,
    mediaPending |-> mediaPending, backoffTimers |-> backoffTimers,
    endTimers |-> endTimers, feedbackEffectDue |-> feedbackEffectDue,
    feedbackCalls |-> feedbackCalls, feedbackRequests |-> feedbackRequests,
    feedbackPending |-> feedbackPending, feedback |-> feedback,
    isLoading |-> isLoading ]

Set(r) ==
  /\ appState' = r.appState
  /\ lessonMaterial' = r.lessonMaterial
  /\ finalTranscript' = r.finalTranscript
  /\ endedCount' = r.endedCount
  /\ phase' = r.phase
  /\ connectionState' = r.connectionState
  /\ reconnectAttempts' = r.reconnectAttempts
  /\ sessionPromise' = r.sessionPromise
  /\ mediaStream' = r.mediaStream
  /\ mediaStreamSource' = r.mediaStreamSource
  /\ scriptProcessor' = r.scriptProcessor
  /\ inputAudioContext' = r.inputAudioContext
  /\ outputAudioContext' = r.outputAudioContext
  /\ audioSources' = r.audioSources
  /\ nextStartTime' = r.nextStartTime
  /\ currentTime' = r.currentTime
  /\ now' = r.now
  /\ transcriptionHistory' = r.transcriptionHistory
  /\ latestTranscriptionHistory' = r.latestTranscriptionHistory
  /\ currentUserTranscriptRef' = r.currentUserTranscriptRef
  /\ currentGeminiTranscriptRef' = r.currentGeminiTranscriptRef
  /\ sessions' = r.sessions
  /\ streams' = r.streams
  /\ mediaPending' = r.mediaPending
  /\ backoffTimers' = r.backoffTimers
  /\ endTimers' = r.endTimers
  /\ feedbackEffectDue' = r.feedbackEffectDue
  /\ feedbackCalls' = r.feedbackCalls
  /\ feedbackRequests' = r.feedbackRequests
  /\ feedbackPending' = r.feedbackPending
  /\ feedback' = r.feedback
  /\ isLoading' = r.isLoading

\* ------------------------------------------------------------ text helpers
UpperCase ==
  << "A","B","C","D","E","F","G","H","I","J","K","L","M",
     "N","O","P","Q","R","S","T","U","V","W","X","Y","Z" >>
LowerCase ==
  << "a","b","c","d","e","f","g","h","i","j","k","l","m",
     "n","o","p","q","r","s","t","u","v","w","x","y","z" >>

toLowerCaseChar(c) ==
  IF \E i \in DOMAIN UpperCase : UpperCase[i] = c
  THEN LowerCase[CHOOSE i \in DOMAIN UpperCase : UpperCase[i] = c]
  ELSE c

toLowerCase(t) == [ i \in DOMAIN t |-> toLowerCaseChar(t[i]) ]

includes(t, w) ==
  \E i \in 0 .. (Len(t) - Len(w)) : SubSeq(t, i + 1, i + Len(w)) = w

\* The parting-word test comparing the text as it is, not lower-cased.
HasPartingWordCaseSensitive(fullOutput) ==
  \E word \in PARTING_WORDS : includes(fullOutput, word)

HasPartingWord(fullOutput) ==
  \E word \in PARTING_WORDS : includes(toLowerCase(fullOutput), word)

\* ------------------------------------------------------------------ handlers
\* A TranscriptionEntry; the id `user-<ms>` or `gemini-<ms>` is the pair of
\* its prefix and its number, the id 'current-user' a lone word.
Entry(id, speaker, text) == [ id |-> id, speaker |-> speaker, text |-> text ]

\* stopConversation(isFinalCleanup): teardown.  session.close() is issued on
\* the session held (closeReq); the transport reports the close later.
\* stopConversation returning early when no session is held.
stopConversationNeedsSession(r, isFinalCleanup) ==
  LET a == IF isFinalCleanup THEN [r EXCEPT !.connectionState = "idle"] ELSE r
  IN  IF a.sessionPromise = 0 THEN a
      ELSE [a EXCEPT
              !.sessions[a.sessionPromise].closeReq = TRUE,
              !.sessionPromise = 0,
              !.streams = IF a.mediaStream # 0
                          THEN [@ EXCEPT ![a.mediaStream] = "stopped"] ELSE @,
              !.mediaStream = 0,
              !.mediaStreamSource = FALSE,
              !.scriptProcessor = FALSE,
              !.inputAudioContext = IF @ = "running" THEN "closed" ELSE @,
              !.outputAudioContext = IF @ = "running" THEN "closed" ELSE @,
              !.audioSources = {},
              !.nextStartTime = 0]

\* stopConversation emptying the two partial buffers as well.
stopConversationClearsPartials(r, isFinalCleanup) ==
  LET a == IF isFinalCleanup THEN [r EXCEPT !.connectionState = "idle"] ELSE r
      b == IF a.sessionPromise # 0
           THEN [a EXCEPT !.sessions[a.sessionPromise].closeReq = TRUE,
                          !.sessionPromise = 0]
           ELSE a
      c == IF b.mediaStream # 0
           THEN [b EXCEPT !.streams[b.mediaStream] = "stopped",
                          !.mediaStream = 0]
           ELSE b
  IN  [c EXCEPT
         !.mediaStreamSource = FALSE,
         !.scriptProcessor = FALSE,
         !.inputAudioContext =
            IF c.inputAudioContext = "running" THEN "closed" ELSE @,
         !.outputAudioContext =
            IF c.outputAudioContext = "running" THEN "closed" ELSE @,
         !.audioSources = {},
         !.nextStartTime = 0,
         !.currentUserTranscriptRef = EmptyText,
         !.currentGeminiTranscriptRef = EmptyText]

\* The teardown; every call it makes on a resource is guarded (a null test,
\* optional chaining, try/catch or .catch), so it completes in every state.
stopConversation(r, isFinalCleanup) ==
  LET a == IF isFinalCleanup THEN [r EXCEPT !.connectionState = "idle"] ELSE r
      b == IF a.sessionPromise # 0
           THEN [a EXCEPT !.sessions[a.sessionPromise].closeReq = TRUE,
                          !.sessionPromise = 0]
           ELSE a
      c == IF b.mediaStream # 0
           THEN [b EXCEPT !.streams[b.mediaStream] = "stopped",
                          !.mediaStream = 0]
           ELSE b
  IN  [c EXCEPT
         !.mediaStreamSource = FALSE,
         !.scriptProcessor = FALSE,
         !.inputAudioContext =
            IF c.inputAudioContext = "running" THEN "closed" ELSE @,
         !.outputAudioContext =
            IF c.outputAudioContext = "running" THEN "closed" ELSE @,
         !.audioSources = {},
         !.nextStartTime = 0]

\* Math.pow(2, attempts - 1) * 1000
Pow2(n) == IF n <= 0 THEN 1 ELSE IF n = 1 THEN 2 ELSE IF n = 2 THEN 4 ELSE 8
\* A delay that grows by one second per attempt.
BackoffDelayLinear(attempts) == attempts * 1000
BackoffDelay(attempts) == Pow2(attempts - 1) * 1000

\* handleFailure comparing with <= : one increment too many.
handleFailureOffByOne(r) ==
  LET a == stopConversation(r, FALSE) IN
  IF a.reconnectAttempts <= MAX_RECONNECT_ATTEMPTS
  THEN [a EXCEPT
          !.reconnectAttempts = @ + 1,
          !.connectionState = "reconnecting",
          !.backoffTimers =
             @ (+) SetToBag({BackoffDelay(a.reconnectAttempts + 1)})]
  ELSE [a EXCEPT !.connectionState = "error"]

\* handleFailure giving up when the increment would reach the maximum.
handleFailureEarlyError(r) ==
  LET a == stopConversation(r, FALSE) IN
  IF a.reconnectAttempts + 1 < MAX_RECONNECT_ATTEMPTS
  THEN [a EXCEPT
          !.reconnectAttempts = @ + 1,
          !.connectionState = "reconnecting",
          !.backoffTimers =
             @ (+) SetToBag({BackoffDelay(a.reconnectAttempts + 1)})]
  ELSE [a EXCEPT !.connectionState = "error",
                 !.reconnectAttempts = MAX_RECONNECT_ATTEMPTS]

\* handleFailure: the failure path.
handleFailure(r) ==
  LET a == stopConversation(r, FALSE) IN
  IF a.reconnectAttempts < MAX_RECONNECT_ATTEMPTS
  THEN [a EXCEPT
          !.reconnectAttempts = @ + 1,
          !.connectionState = "reconnecting",
          !.backoffTimers =
             @ (+) SetToBag({BackoffDelay(a.reconnectAttempts + 1)})]
  ELSE [a EXCEPT !.connectionState = "error"]

\* startConversation resetting the attempt counter when a connect starts.
startConversationResetsAttempts(r) ==
  LET a == stopConversation(r, FALSE) IN
  [a EXCEPT
     !.connectionState =
        IF a.reconnectAttempts > 0 THEN "reconnecting" ELSE "connecting",
     !.reconnectAttempts = 0,
     !.mediaPending = @ + 1]

\* startConversation showing connecting on every connect, reconnects too.
startConversationAlwaysConnecting(r) ==
  LET a == stopConversation(r, FALSE) IN
  [a EXCEPT
     !.connectionState = "connecting",
     !.mediaPending = @ + 1]

\* startConversation, up to its first await (getUserMedia).
startConversation(r) ==
  LET a == stopConversation(r, FALSE) IN
  [a EXCEPT
     !.connectionState =
        IF a.reconnectAttempts > 0 THEN "reconnecting" ELSE "connecting",
     !.mediaPending = @ + 1]

\* The lines of the recap block: 'Student: text' or 'Tutor: text' per entry.
historyText(entries) ==
  [ i \in DOMAIN entries |->
      [ who |-> IF entries[i].speaker = "user" THEN "Student" ELSE "Tutor",
        text |-> entries[i].text ] ]

\* The recap a connect adds to the base instruction (empty: base only).
finalSystemInstruction(r) ==
  IF r.reconnectAttempts > 0 /\ Len(r.latestTranscriptionHistory) > 0
  THEN historyText(r.latestTranscriptionHistory)
  ELSE << >>

\* startConversation, from the resolution of getUserMedia to its second await:
\* the stream is stored, the playback context created and the session opened.
startConversationConnect(r) ==
  LET id == Len(r.sessions) + 1 IN
  [r EXCEPT
     !.mediaPending = @ - 1,
     !.streams = Append(@, "live"),
     !.mediaStream = id,
     !.outputAudioContext = "running",
     !.currentTime = 0,
     !.sessions = Append(@, [status |-> "pending", closeReq |-> FALSE,
                             errored |-> FALSE, stale |-> 0,
                             recap |-> finalSystemInstruction(r)]),
     !.sessionPromise = id]

\* startConversation, getUserMedia rejected: the catch block.
startConversationCatch(r) ==
  handleFailure([r EXCEPT !.mediaPending = @ - 1])

\* callbacks.onopen.  createMediaStreamSource(null) raises, which leaves the
\* capture nodes unset.
onopen(r) ==
  LET a == [r EXCEPT !.connectionState = "connected",
                     !.reconnectAttempts = 0,
                     !.inputAudioContext = "running"]
  IN  IF a.mediaStream = 0 THEN a
      ELSE [a EXCEPT !.mediaStreamSource = TRUE, !.scriptProcessor = TRUE]

\* The updater starting from an empty list instead of a copy of the log.
CommitTurnDropsPrev(prevHistory, fullInput, fullOutput, dateNow) ==
  (IF fullInput # EmptyText
   THEN << Entry(<<"user", dateNow>>, "user", fullInput) >> ELSE << >>)
    \o (IF fullOutput # EmptyText
        THEN << Entry(<<"gemini", dateNow>>, "gemini", fullOutput) >>
        ELSE << >>)

\* The setTranscriptionHistory updater of a turn-complete; dateNow is what
\* Date.now() returns in it.
CommitTurn(prevHistory, fullInput, fullOutput, dateNow) ==
  prevHistory
    \o (IF fullInput # EmptyText
        THEN << Entry(<<"user", dateNow>>, "user", fullInput) >> ELSE << >>)
    \o (IF fullOutput # EmptyText
        THEN << Entry(<<"gemini", dateNow>>, "gemini", fullOutput) >>
        ELSE << >>)

\* onmessage keeping the first partial of a turn instead of the latest.
onmessageTranscriptKeepsFirst(r, m) ==
  LET a == IF m.hasIn /\ r.currentUserTranscriptRef = EmptyText
           THEN [r EXCEPT !.currentUserTranscriptRef = m.inText] ELSE r
      b == IF m.hasOut /\ a.currentGeminiTranscriptRef = EmptyText
           THEN [a EXCEPT !.currentGeminiTranscriptRef = m.outText] ELSE a
      fullInput == b.currentUserTranscriptRef
      fullOutput == b.currentGeminiTranscriptRef
      newHistory ==
        CommitTurn(b.transcriptionHistory, fullInput, fullOutput, b.now)
  IN  IF m.turnComplete
      THEN [b EXCEPT
              !.transcriptionHistory = newHistory,
              !.endTimers =
                 IF HasPartingWord(fullOutput) THEN @ \cup {newHistory} ELSE @,
              !.currentUserTranscriptRef = EmptyText,
              !.currentGeminiTranscriptRef = EmptyText]
      ELSE b

\* callbacks.onmessage, the transcript part (before the audio payload).
onmessageTranscript(r, m) ==
  LET a == IF m.hasIn
           THEN [r EXCEPT !.currentUserTranscriptRef = m.inText] ELSE r
      b == IF m.hasOut
           THEN [a EXCEPT !.currentGeminiTranscriptRef = m.outText] ELSE a
      fullInput == b.currentUserTranscriptRef
      fullOutput == b.currentGeminiTranscriptRef
      newHistory ==
        CommitTurn(b.transcriptionHistory, fullInput, fullOutput, b.now)
  IN  IF m.turnComplete
      THEN [b EXCEPT
              !.transcriptionHistory = newHistory,
              !.endTimers =
                 IF HasPartingWord(fullOutput) THEN @ \cup {newHistory} ELSE @,
              !.currentUserTranscriptRef = EmptyText,
              !.currentGeminiTranscriptRef = EmptyText]
      ELSE b

Max(a, b) == IF a > b THEN a ELSE b

\* The buffer started at the clock reading, whatever the cursor says.
onmessageAudioFromClock(r, duration) ==
  LET startTime == r.currentTime IN
  [r EXCEPT
     !.nextStartTime = startTime + duration,
     !.audioSources = @ \cup { [start |-> startTime, dur |-> duration] }]

\* callbacks.onmessage, the audio part: the decoded buffer is started at
\* max(currentTime, nextStartTime), the cursor moves to its end and the
\* source is tracked.
onmessageAudio(r, duration) ==
  LET startTime == Max(r.currentTime, r.nextStartTime) IN
  [r EXCEPT
     !.nextStartTime = startTime + duration,
     !.audioSources = @ \cup { [start |-> startTime, dur |-> duration] }]

\* callbacks.onmessage: an audio payload that fails to decode raises inside
\* the try block, and the catch runs the failure path.  The payload is looked
\* at whenever outputAudioContext holds a context, closed or not.
onmessage(r, m) ==
  LET a == onmessageTranscript(r, m) IN
  IF m.audio = "none" \/ a.outputAudioContext = "null" THEN a
  ELSE IF m.audio = "bad" THEN handleFailure(a)
  ELSE onmessageAudio(a, m.dur)

\* source.onended: the source leaves the tracked set.
onended(r, source) == [r EXCEPT !.audioSources = @ \ {source}]

onerror(r) == handleFailure(r)

\* onclose treating every close as a failure.
oncloseIgnoresWasClean(r, wasClean) == handleFailure(r)

onclose(r, wasClean) == IF ~wasClean THEN handleFailure(r) ELSE r

\* App.finishLesson, reached through handleEndLesson -> onEndLesson.  The
\* array handed over is a new object each time (a fresh finalHistory or a
\* newHistory), so the history prop of FeedbackView changes, or the view
\* mounts, and its effect is due.
finishLesson(r, history) ==
  [r EXCEPT !.finalTranscript = history,
            !.appState = "feedback",
            !.endedCount = @ + 1,
            !.feedbackEffectDue = TRUE]

\* App.startLesson, called by the welcome view with the material it built.
startLesson(r) ==
  [r EXCEPT !.lessonMaterial = TRUE,
            !.finalTranscript = << >>,
            !.appState = "conversation"]

\* App.restart, the onRestart of the feedback view.
restart(r) ==
  [r EXCEPT !.lessonMaterial = FALSE,
            !.finalTranscript = << >>,
            !.appState = "welcome"]

\* generateFeedback requesting a summary of an empty transcript too.
generateFeedbackAlwaysRequests(r, history) ==
  [r EXCEPT !.feedbackCalls = @ + 1,
            !.feedbackRequests = @ + 1,
            !.feedbackPending = @ + 1]

\* generateFeedback, up to its await: the fixed message for an empty
\* transcript, else one generateContent request.
generateFeedback(r, history) ==
  IF Len(history) = 0
  THEN [r EXCEPT !.feedbackCalls = @ + 1,
                 !.feedback = "noConversation"]
  ELSE [r EXCEPT !.feedbackCalls = @ + 1,
                 !.feedbackRequests = @ + 1,
                 !.feedbackPending = @ + 1]

\* generateFeedback, after its await: the response text, or the fallback
\* string of the catch block.
generateFeedbackDone(r, ok) ==
  [r EXCEPT !.feedbackPending = @ - 1,
            !.feedback = IF ok THEN "text" ELSE "fallback"]

\* FeedbackView's effect on [history]: isLoading is set, and cleared in the
\* finally block, at once when generateFeedback returned without a request.
getFeedback(r) ==
  LET a == generateFeedback([r EXCEPT !.feedbackEffectDue = FALSE,
                                      !.isLoading = TRUE],
                            r.finalTranscript)
  IN  IF a.feedbackPending = r.feedbackPending
      THEN [a EXCEPT !.isLoading = FALSE]
      ELSE a

\* getFeedback after its await: the text is stored and isLoading cleared.
getFeedbackDone(r, ok) ==
  [generateFeedbackDone(r, ok) EXCEPT !.isLoading = FALSE]

handleEndLesson(r, finalHistory) == finishLesson(r, finalHistory)

prepareFinalHistoryAndEnd(r) ==
  handleEndLesson(r,
    r.latestTranscriptionHistory
      \o (IF r.currentUserTranscriptRef # EmptyText
          THEN << Entry(<<"current-user">>, "user",
                        r.currentUserTranscriptRef) >>
          ELSE << >>))

\* The effect on [transcriptionHistory]: the ref takes the rendered log.
historyEffect(r) ==
  [r EXCEPT !.latestTranscriptionHistory = r.transcriptionHistory]

\* A ConversationView enters the tree: its state and refs have their initial
\* values.
newConversationView(r) ==
  [r EXCEPT !.phase = "constructed",
            !.connectionState = "idle",
            !.reconnectAttempts = 0,
            !.sessionPromise = 0,
            !.mediaStream = 0,
            !.mediaStreamSource = FALSE,
            !.scriptProcessor = FALSE,
            !.inputAudioContext = "null",
            !.outputAudioContext = "null",
            !.audioSources = {},
            !.nextStartTime = 0,
            !.currentTime = 0,
            !.transcriptionHistory = << >>,
            !.latestTranscriptionHistory = << >>,
            !.currentUserTranscriptRef = EmptyText,
            !.currentGeminiTranscriptRef = EmptyText]

\* A FeedbackView out of the tree: the next one starts from its initial
\* state, and what a request of the old one returns is set on no view.
noFeedbackView(r) ==
  [r EXCEPT !.feedbackEffectDue = FALSE,
            !.feedbackPending = 0,
            !.feedback = "",
            !.isLoading = TRUE]

\* App's render: ConversationView is shown only in the conversation state
\* with lesson material, FeedbackView only in the feedback state; when
\* ConversationView leaves the tree its effect cleanup runs
\* stopConversation(true).
render(r) ==
  LET a == IF r.appState # "feedback" THEN noFeedbackView(r) ELSE r
      shown == a.appState = "conversation" /\ a.lessonMaterial
  IN  IF a.phase = "mounted" /\ ~shown
      THEN stopConversation([a EXCEPT !.phase = "unmounted"], TRUE)
      ELSE IF a.phase = "constructed" /\ ~shown
      THEN [a EXCEPT !.phase = "unmounted"]
      ELSE IF a.phase = "unmounted" /\ shown
      THEN newConversationView(a)
      ELSE a

\* ------------------------------------------------------------- transport
SessionIds == 1 .. Len(sessions)

\* A session may run a callback while it is not closed; after close() was
\* issued on it only the callbacks still in flight arrive.
CanDeliver(s) ==
  /\ sessions[s].status # "closed"
  /\ sessions[s].closeReq => sessions[s].stale < MaxStale

\* The transport's own record of session s after it delivered a callback
\* that leaves it in the given status; a closed session delivers nothing
\* more, so what it delivered before is dropped.
delivered(r, s, status, isError) ==
  [r EXCEPT !.sessions[s] =
     IF status = "closed"
     THEN [status |-> "closed", closeReq |-> @.closeReq, errored |-> FALSE,
           stale |-> 0, recap |-> << >>]
     ELSE [status |-> status, closeReq |-> @.closeReq,
           errored |-> @.errored \/ isError,
           stale |-> IF @.closeReq THEN @.stale + 1 ELSE @.stale,
           recap |-> @.recap]]

\* -------------------------------------------------------------- actions
RanFailurePath(op, m) ==
  \/ op \in {"getUserMediaReject", "connectReject", "onerror",
             "oncloseUnclean"}
  \/ op = "onmessage" /\ m.audio = "bad"

Min(a, b) == IF a < b THEN a ELSE b

\* A step of handler op, run for session s (0 if for none), that leaves the
\* cells as r.
StepOn(op, m, s, r) ==
  /\ Set(r)
  /\ played' =
       [ t \in 1 .. Len(r.sessions) |->
           IF r.sessions[t].status = "closed" THEN 0
           ELSE IF t = s /\ r.audioSources \ audioSources # {}
           THEN LET src == CHOOSE x \in r.audioSources \ audioSources : TRUE
                IN  src.start + src.dur
           ELSE IF t <= Len(played) THEN played[t]
           ELSE 0 ]
  /\ failuresInRow' =
       IF RanFailurePath(op, m)
       THEN Min(failuresInRow + 1, MAX_RECONNECT_ATTEMPTS + 1)
       ELSE IF op \in {"onopen", "startLesson"} THEN 0
       ELSE failuresInRow
  /\ turnCommitted' = (op = "onmessage" /\ m.turnComplete)
  /\ turnClosedOn' =
       IF op = "onmessage" /\ m.turnComplete THEN s
       ELSE IF op = "startLesson" THEN 0
       ELSE turnClosedOn
  /\ lessons' = IF op = "startLesson" THEN lessons + 1 ELSE lessons
  /\ latePartial' = (op = "onmessageLate")
  /\ lastUserPartial' =
       IF op = "onmessage" /\ m.hasIn THEN m.inText
       ELSE IF turnCommitted \/ op = "startLesson" THEN EmptyText
       ELSE lastUserPartial
  /\ lastTutorPartial' =
       IF op = "onmessage" /\ m.hasOut THEN m.outText
       ELSE IF turnCommitted \/ op = "startLesson" THEN EmptyText
       ELSE lastTutorPartial

Step(op, m, r) == StepOn(op, m, 0, r)

\* The initial values of everything but the view shown.
Fresh ==
  /\ finalTranscript = << >>
  /\ endedCount = 0
  /\ connectionState = "idle"
  /\ reconnectAttempts = 0
  /\ sessionPromise = 0
  /\ mediaStream = 0
  /\ mediaStreamSource = FALSE
  /\ scriptProcessor = FALSE
  /\ inputAudioContext = "null"
  /\ outputAudioContext = "null"
  /\ audioSources = {}
  /\ nextStartTime = 0
  /\ currentTime = 0
  /\ now = 0
  /\ transcriptionHistory = << >>
  /\ latestTranscriptionHistory = << >>
  /\ currentUserTranscriptRef = EmptyText
  /\ currentGeminiTranscriptRef = EmptyText
  /\ sessions = << >>
  /\ streams = << >>
  /\ mediaPending = 0
  /\ backoffTimers = EmptyBag
  /\ endTimers = {}
  /\ feedbackEffectDue = FALSE
  /\ feedbackCalls = 0
  /\ feedbackRequests = 0
  /\ feedbackPending = 0
  /\ feedback = ""
  /\ isLoading = TRUE
  /\ failuresInRow = 0
  /\ turnCommitted = FALSE
  /\ lastUserPartial = EmptyText
  /\ lastTutorPartial = EmptyText
  /\ played = << >>
  /\ turnClosedOn = 0
  /\ latePartial = FALSE

\* A lesson was started: App shows the conversation view, which is
\* constructed and not yet mounted.
Init ==
  /\ appState = "conversation"
  /\ lessonMaterial = TRUE
  /\ phase = "constructed"
  /\ lessons = 1
  /\ Fresh

\* App as constructed: the welcome view, no lesson material, no conversation
\* view in the tree.
InitShell ==
  /\ appState = "welcome"
  /\ lessonMaterial = FALSE
  /\ phase = "unmounted"
  /\ lessons = 0
  /\ Fresh

\* The mount effect: startConversationRef is set and startConversation called.
Mount ==
  /\ phase = "constructed"
  /\ Step("mount", NoMsg, startConversation([Cur EXCEPT !.phase = "mounted"]))

GetUserMediaResolve(maxConnects) ==
  /\ mediaPending > 0
  /\ Len(sessions) < maxConnects
  /\ Step("getUserMediaResolve", NoMsg, startConversationConnect(Cur))

GetUserMediaReject ==
  /\ mediaPending > 0
  /\ Step("getUserMediaReject", NoMsg, startConversationCatch(Cur))

\* The session opens: onopen runs, then the connect promise resolves.
OnOpen(s) ==
  /\ CanDeliver(s)
  /\ sessions[s].status = "pending"
  /\ Step("onopen", NoMsg, onopen(delivered(Cur, s, "open", FALSE)))

\* The connect promise rejects: the catch block of startConversation.
ConnectReject(s) ==
  /\ CanDeliver(s)
  /\ sessions[s].status = "pending"
  /\ Step("connectReject", NoMsg,
          handleFailure(delivered(Cur, s, "closed", FALSE)))

OnMessageStep(s, m) ==
  /\ CanDeliver(s)
  /\ sessions[s].status = "open"
  /\ StepOn("onmessage", m, s,
            onmessage(delivered(Cur, s, "open", FALSE), m))

OnMessage(s, m, maxLog) ==
  /\ Len(onmessageTranscript(Cur, m).transcriptionHistory) <= maxLog
  /\ Max(currentTime, nextStartTime) + m.dur <= MaxTime
  /\ OnMessageStep(s, m)

\* A partial of the turn that session s closed last is still in flight when
\* the turn-complete is handled, and arrives after it.  The message carries no
\* turn identity: onmessage handles it as any other.
OnLatePartial(s, m) ==
  /\ turnClosedOn = s
  /\ CanDeliver(s)
  /\ sessions[s].status = "open"
  /\ StepOn("onmessageLate", m, s,
            onmessage(delivered(Cur, s, "open", FALSE), m))

\* The clock of the playback context advances while the context runs.
Tick ==
  /\ outputAudioContext = "running"
  /\ currentTime < MaxTime
  /\ Step("tick", NoMsg, [Cur EXCEPT !.currentTime = @ + 1])

\* The wall clock moves on by a millisecond.
DateTick ==
  /\ now < MaxNow
  /\ Step("dateTick", NoMsg, [Cur EXCEPT !.now = @ + 1])

\* A tracked source finishes playing.
OnEnded(source) ==
  /\ source \in audioSources
  /\ outputAudioContext = "running"
  /\ currentTime >= source.start + source.dur
  /\ Step("onended", NoMsg, onended(Cur, source))

\* The transport's error signal: a socket reports an error once, before it
\* closes.
OnError(s) ==
  /\ CanDeliver(s)
  /\ ~sessions[s].errored
  /\ Step("onerror", NoMsg,
          onerror(delivered(Cur, s, sessions[s].status, TRUE)))

OnClose(s, wasClean) ==
  /\ CanDeliver(s)
  /\ Step(IF wasClean THEN "oncloseClean" ELSE "oncloseUnclean", NoMsg,
          onclose(delivered(Cur, s, "closed", FALSE), wasClean))

\* FeedbackView's effect runs after the render that mounted the view or
\* changed its history prop.
FeedbackEffect ==
  /\ feedbackEffectDue
  /\ appState = "feedback"
  /\ Step("feedbackEffect", NoMsg, getFeedback(Cur))

\* The generateContent request settles: a response, or a failure.
FeedbackResponse(ok) ==
  /\ feedbackPending > 0
  /\ Step("feedbackResponse", NoMsg, getFeedbackDone(Cur, ok))

\* The effect that copies the log to the ref runs after the render that
\* follows a commit, while the component is mounted.
HistoryEffect ==
  /\ phase = "mounted"
  /\ latestTranscriptionHistory # transcriptionHistory
  /\ Step("historyEffect", NoMsg, historyEffect(Cur))

\* Timers run a second or more after they were set, a pending render and its
\* effects well before that.
EffectsFlushed ==
  phase = "mounted" => latestTranscriptionHistory = transcriptionHistory

\* A backoff timer fires: startConversationRef.current?.()
BackoffTimerFire(d) ==
  /\ d \in BagToSet(backoffTimers)
  /\ EffectsFlushed
  /\ Step("backoffTimer", NoMsg,
          startConversation(
            [Cur EXCEPT !.backoffTimers = @ (-) SetToBag({d})]))

\* An end-of-lesson timer fires: handleEndLesson(newHistory)
EndTimerFire(h) ==
  /\ h \in endTimers
  /\ EffectsFlushed
  /\ Step("endTimer", NoMsg,
          render(handleEndLesson([Cur EXCEPT !.endTimers = @ \ {h}], h)))

\* The user presses End Lesson (or the back button).
EndLessonClick ==
  /\ phase = "mounted"
  /\ Step("endLessonClick", NoMsg, render(prepareFinalHistoryAndEnd(Cur)))

\* Nothing of the conversation view that left the tree is pending but its
\* end-of-lesson timers: no connect, no backoff timer, no callback.
Quiescent ==
  /\ mediaPending = 0
  /\ backoffTimers = EmptyBag
  /\ \A s \in SessionIds : ~CanDeliver(s)

\* The user starts a lesson from the welcome view, once the earlier
\* conversation view is quiescent: the cells of the conversation view then
\* describe the new one.
StartLesson ==
  /\ appState = "welcome"
  /\ lessons < MaxLessons
  /\ Quiescent
  /\ Step("startLesson", NoMsg, render(startLesson(Cur)))

\* The user presses Start a New Lesson in the feedback view; the button is
\* disabled while isLoading.
Restart ==
  /\ appState = "feedback"
  /\ ~isLoading
  /\ Step("restart", NoMsg, render(restart(Cur)))

\* The steps of a lesson over a transport whose sessions open, carry
\* messages and close, cleanly or not.
Lifecycle(maxConnects, messages, maxLog) ==
  \/ Mount
  \/ GetUserMediaResolve(maxConnects)
  \/ \E s \in SessionIds : OnOpen(s)
  \/ \E s \in SessionIds : \E m \in messages : OnMessage(s, m, maxLog)
  \/ \E s \in SessionIds : \E wasClean \in BOOLEAN : OnClose(s, wasClean)
  \/ \E d \in {1000, 2000, 4000} : BackoffTimerFire(d)
  \/ EndLessonClick

\* The same with what follows a committed turn: the effect that copies the
\* log to the ref, and the end-of-lesson timers.
NextOf(maxConnects, messages, maxLog) ==
  \/ Lifecycle(maxConnects, messages, maxLog)
  \/ HistoryEffect
  \/ \E h \in endTimers : EndTimerFire(h)

\* The other ways a connect attempt or a session fails: the microphone is
\* refused, the connect promise rejects, the transport signals an error.
Faults ==
  \/ GetUserMediaReject
  \/ \E s \in SessionIds : ConnectReject(s)
  \/ \E s \in SessionIds : OnError(s)

\* The connection lifecycle, with the one message that reaches it.
Next == Lifecycle(MaxConnects, FaultMessages, SessionMaxLog) \/ Faults
Spec == Init /\ [][Next]_vars

\* The connection lifecycle with room for two connects after a first session.
NextRace == Lifecycle(RaceMaxConnects, FaultMessages, SessionMaxLog) \/ Faults
SpecRace == Init /\ [][NextRace]_vars

\* A lesson whose session commits a turn, fails and is reconnected.
NextRecap == NextOf(RecapMaxConnects, SessionMessages, SessionMaxLog) \/ Faults
SpecRecap == Init /\ [][NextRecap]_vars

\* The transcript, with every message that carries transcript signals, over
\* sessions whose only failure is an unclean close.
NextTurn == NextOf(MaxConnects, TurnMessages, MaxLog)
SpecTurn == Init /\ [][NextTurn]_vars

\* The transcript over a transport that may deliver a partial after the
\* turn-complete of its turn.
NextLate ==
  \/ NextOf(MaxConnects, TurnMessages, MaxLog)
  \/ \E s \in SessionIds : \E m \in PartialMessages :
        OnLatePartial(s, m)
SpecLate == Init /\ [][NextLate]_vars

\* The lesson's end: sessions that carry a closing tutor turn, and the
\* feedback view that follows the lesson.
NextFeedback ==
  \/ NextOf(MaxConnects, ClosingMessages, SessionMaxLog)
  \/ FeedbackEffect
  \/ \E ok \in BOOLEAN : FeedbackResponse(ok)
SpecFeedback == Init /\ [][NextFeedback]_vars

\* The shell: lessons started from the welcome view, ended, and followed by
\* the feedback view and a restart.
NextShell ==
  \/ NextOf(RecapMaxConnects, ClosingMessages, SessionMaxLog)
  \/ FeedbackEffect
  \/ \E ok \in BOOLEAN : FeedbackResponse(ok)
  \/ StartLesson
  \/ Restart
SpecShell == InitShell /\ [][NextShell]_vars

\* The transcript again, on a wall clock that moves.
NextIds ==
  \/ NextOf(MaxConnects, TurnMessages, MaxLog)
  \/ DateTick
SpecIds == Init /\ [][NextIds]_vars

\* Playback: sessions that carry decodable audio, on a running clock.
NextAudio ==
  \/ NextOf(MaxConnects, AudioMessages, SessionMaxLog)
  \/ Tick
  \/ \E source \in audioSources : OnEnded(source)
SpecAudio == Init /\ [][NextAudio]_vars

TypeOK ==
  /\ reconnectAttempts \in 0 .. MAX_RECONNECT_ATTEMPTS
  /\ connectionState \in
       {"idle", "connecting", "connected", "reconnecting", "error"}

\* ------------------------------------------------------------------ claims
\* sessions opened (or being opened) on which no teardown has been issued
OpenSessions ==
  { s \in SessionIds : sessions[s].status # "closed" /\ ~sessions[s].closeReq }

\* capture streams acquired and not stopped
LiveStreams == { i \in DOMAIN streams : streams[i] = "live" }

\* C1: in every reachable state at most one realtime session is open (not
\* torn down) and at most one capture stream is live.
C1_AtMostOneSession ==
  /\ Cardinality(OpenSessions) <= 1
  /\ Cardinality(LiveStreams) <= 1

\* C2: the onEndLesson callback is never invoked a second time.
C2_EndedAtMostOnce == endedCount <= 1

\* A run of the failure path (handleFailure), from any of its callers.
FailureRun ==
  \/ GetUserMediaReject
  \/ \E s \in SessionIds : ConnectReject(s)
  \/ \E s \in SessionIds : OnError(s)
  \/ \E s \in SessionIds : OnClose(s, FALSE)
  \/ \E s \in SessionIds : \E m \in Messages :
        m.audio = "bad" /\ OnMessageStep(s, m)

ConnectScheduled ==
  BagCardinality(backoffTimers') = BagCardinality(backoffTimers) + 1

\* C3: the attempt counter starts at 0 and stays within 0 .. 3; a run of the
\* failure path below the maximum adds exactly 1, sets the state to
\* reconnecting and schedules one connect; a run at the maximum leaves the
\* counter, sets the state to error and schedules nothing.
C3_FailureCounter ==
  /\ reconnectAttempts = 0
  /\ [](reconnectAttempts \in 0 .. MAX_RECONNECT_ATTEMPTS)
  /\ [][FailureRun =>
          IF reconnectAttempts < MAX_RECONNECT_ATTEMPTS
          THEN /\ reconnectAttempts' = reconnectAttempts + 1
               /\ connectionState' = "reconnecting"
               /\ ConnectScheduled
          ELSE /\ reconnectAttempts' = reconnectAttempts
               /\ connectionState' = "error"
               /\ backoffTimers' = backoffTimers]_vars

\* a failure at the maximum has happened
C3_Witness ==
  /\ connectionState = "error"
  /\ reconnectAttempts = MAX_RECONNECT_ATTEMPTS
  /\ failuresInRow > MAX_RECONNECT_ATTEMPTS

\* C4: only the open callback, which moves the state to connected, lowers the
\* attempt counter, and it sets it to zero.
C4_ResetOnlyOnConnected ==
  [][reconnectAttempts' < reconnectAttempts =>
       /\ \E s \in SessionIds : OnOpen(s)
       /\ connectionState' = "connected"
       /\ reconnectAttempts' = 0]_vars

\* an open has followed a failure whose sibling backoff timer is still pending
C4_Witness ==
  /\ connectionState = "connected"
  /\ reconnectAttempts = 0
  /\ failuresInRow = 0
  /\ backoffTimers # EmptyBag

\* C5 (as claimed): the third failure in a row ends in the error state with
\* the counter at 3 and no reconnect scheduled.
C5_ThirdFailureIsTerminal ==
  [][FailureRun /\ failuresInRow' = 3 =>
       /\ connectionState' = "error"
       /\ reconnectAttempts' = 3
       /\ backoffTimers' = backoffTimers]_vars

\* C5 (amended): the third failure in a row leaves the counter at 3 with the
\* state reconnecting and the third reconnect scheduled; the fourth failure
\* in a row, and every later one, sets the error state with the counter
\* still 3 and schedules no reconnect.
C5_FourthFailureIsTerminal ==
  [][FailureRun =>
       /\ failuresInRow' = 3 =>
            /\ reconnectAttempts' = 3
            /\ connectionState' = "reconnecting"
            /\ ConnectScheduled
       /\ failuresInRow' > 3 =>
            /\ reconnectAttempts' = 3
            /\ connectionState' = "error"
            /\ backoffTimers' = backoffTimers]_vars

\* the fourth failure in a row has happened
C5_Witness ==
  /\ failuresInRow > 3
  /\ connectionState = "error"
  /\ reconnectAttempts = 3

\* C6: once the state is error no connect attempt starts and the state moves
\* nowhere but to idle.
C6_ErrorIsTerminal ==
  [][connectionState = "error" =>
       /\ connectionState' \in {"error", "idle"}
       /\ mediaPending' <= mediaPending]_vars

\* C7: a backoff or end-of-lesson timer that fires after the final teardown
\* starts no connect and has no effect on the lesson's result.
C7_TimersGuarded ==
  [][/\ phase = "unmounted"
     /\ \/ \E d \in BagToSet(backoffTimers) : BackoffTimerFire(d)
        \/ \E h \in endTimers : EndTimerFire(h)
     => /\ mediaPending' = mediaPending
        /\ connectionState' = connectionState
        /\ endedCount' = endedCount
        /\ finalTranscript' = finalTranscript
        /\ appState' = appState]_vars

IsPrefix(a, b) == Len(a) <= Len(b) /\ SubSeq(b, 1, Len(a)) = a

\* C8: in every step the previous transcript log is a prefix of the new one.
C8_AppendOnly == [][IsPrefix(transcriptionHistory, transcriptionHistory')]_vars

\* two separate commits have been appended
C8_Witness ==
  /\ Len(transcriptionHistory) = 2
  /\ transcriptionHistory[1].speaker = transcriptionHistory[2].speaker

\* a log without its ids: who said what, in order
Said(log) ==
  [ i \in DOMAIN log |-> [speaker |-> log[i].speaker, text |-> log[i].text] ]

\* C9: a turn-complete appends the student entry, if the latest student
\* partial received since the last commit is non-empty, then the tutor entry
\* likewise, each with that latest text, and leaves both buffers empty.
C9_TurnCommit ==
  [][turnCommitted' =>
         LET latestIn == lastUserPartial'
             latestOut == lastTutorPartial'
         IN  /\ IsPrefix(transcriptionHistory, transcriptionHistory')
             /\ Said(transcriptionHistory') =
                  Said(transcriptionHistory)
                    \o (IF latestIn # EmptyText
                        THEN << [speaker |-> "user", text |-> latestIn] >>
                        ELSE << >>)
                    \o (IF latestOut # EmptyText
                        THEN << [speaker |-> "gemini", text |-> latestOut] >>
                        ELSE << >>)
             /\ currentUserTranscriptRef' = EmptyText
             /\ currentGeminiTranscriptRef' = EmptyText]_vars

\* one turn-complete has committed a student entry followed by a tutor entry
C9_Witness ==
  /\ Len(transcriptionHistory) = 2
  /\ transcriptionHistory[1].speaker = "user"
  /\ transcriptionHistory[2].speaker = "gemini"
  /\ currentUserTranscriptRef = EmptyText
  /\ currentGeminiTranscriptRef = EmptyText

\* C10: a clean close runs no teardown, leaves the counter and the state and
\* schedules nothing; an unclean close runs the failure path.
C10_CleanCloseIsNoFailure ==
  [][\A s \in SessionIds :
       /\ OnClose(s, TRUE) =>
            /\ UNCHANGED << reconnectAttempts, connectionState, backoffTimers,
                            mediaPending, sessionPromise, mediaStream, streams,
                            mediaStreamSource, scriptProcessor,
                            inputAudioContext, outputAudioContext,
                            audioSources, nextStartTime >>
            /\ \A t \in SessionIds :
                 sessions'[t].closeReq = sessions[t].closeReq
       /\ OnClose(s, FALSE) =>
            /\ sessionPromise' = 0
            /\ mediaStream' = 0
            /\ IF reconnectAttempts < MAX_RECONNECT_ATTEMPTS
               THEN /\ reconnectAttempts' = reconnectAttempts + 1
                    /\ connectionState' = "reconnecting"
                    /\ ConnectScheduled
               ELSE connectionState' = "error"]_vars

\* a clean close was delivered by the session held, which is still held
C10_Witness ==
  /\ connectionState = "connected"
  /\ sessionPromise # 0
  /\ sessions[sessionPromise].status = "closed"

\* A message of session s whose audio payload is decoded and started.
Scheduled(s, m) ==
  /\ m.audio = "ok"
  /\ outputAudioContext # "null"
  /\ OnMessageStep(s, m)

\* C11: every buffer a session's message starts is started at
\* max(playback clock, cursor), not before the end of the previous buffer of
\* that session, and the cursor moves to the buffer's end.
C11_NoOverlap ==
  [][\A s \in SessionIds : \A m \in AudioMessages :
       Scheduled(s, m) =>
         LET startTime == Max(currentTime, nextStartTime) IN
         /\ [start |-> startTime, dur |-> m.dur] \in audioSources'
         /\ nextStartTime' = startTime + m.dur
         /\ startTime >= played[s]]_vars

\* C12 (as claimed): no step lowers the playback cursor.
C12_CursorNeverDecreases == [][nextStartTime' >= nextStartTime]_vars

\* C12 (amended): a step lowers the playback cursor only by running the
\* teardown, which sets it to 0 with the handles cleared; every other step
\* leaves or raises it.
C12_CursorLoweredOnlyByTeardown ==
  [][nextStartTime' < nextStartTime =>
       /\ nextStartTime' = 0
       /\ audioSources' = {}
       /\ sessionPromise' = 0
       /\ mediaStream' = 0
       /\ outputAudioContext' = "closed"]_vars

\* a session that has started a buffer was torn down and the cursor is back
\* at 0
C12_Witness ==
  /\ nextStartTime = 0
  /\ \E s \in SessionIds : sessions[s].closeReq /\ played[s] > 0

\* C13: in every reachable state, also before anything was acquired, the
\* teardown leaves the session handle, the capture stream and its nodes
\* cleared, the tracked playback set empty and the cursor 0, and a second
\* teardown right after it changes nothing.
C13_TeardownIdempotent ==
  \A isFinalCleanup \in BOOLEAN :
    LET a == stopConversation(Cur, isFinalCleanup) IN
    /\ a.sessionPromise = 0
    /\ a.mediaStream = 0
    /\ ~a.mediaStreamSource
    /\ ~a.scriptProcessor
    /\ a.audioSources = {}
    /\ a.nextStartTime = 0
    /\ stopConversation(a, isFinalCleanup) = a

\* the teardown of a reconnect has run right after the teardown of the
\* failure path, on a session that had been opened
C13_Witness ==
  /\ mediaPending > 0
  /\ connectionState = "reconnecting"
  /\ sessionPromise = 0
  /\ Len(sessions) > 0

\* the fixed end phrases
EndPhrases ==
  { <<"g","o","o","d","b","y","e">>,
    <<"g","o","o","d"," ","b","y","e">>,
    <<"s","e","e"," ","y","o","u">>,
    <<"l","e","s","s","o","n"," ","i","s"," ","o","v","e","r">> }

\* character c, lower-cased, is the lower-case character l
LowersTo(c, l) ==
  \/ c = l
  \/ \E i \in DOMAIN UpperCase : UpperCase[i] = c /\ LowerCase[i] = l

\* text, lower-cased, has an end phrase as a substring
ContainsEndPhrase(text) ==
  \E phrase \in EndPhrases : \E k \in 0 .. Len(text) :
    /\ k + Len(phrase) <= Len(text)
    /\ \A j \in 1 .. Len(phrase) : LowersTo(text[k + j], phrase[j])

\* C14: a turn-complete schedules the end of the lesson (one more pending
\* end-of-lesson timer, carrying the new log) exactly when the committed
\* tutor text, lower-cased, contains an end phrase; the turn-complete step
\* itself does not invoke the end-of-lesson callback, which only a timer step
\* or the End Lesson action does.
C14_EndPhraseSchedulesEnd ==
  /\ [][turnCommitted' =>
          /\ IF ContainsEndPhrase(lastTutorPartial')
             THEN /\ transcriptionHistory' \notin endTimers
                  /\ endTimers' = endTimers \cup {transcriptionHistory'}
             ELSE endTimers' = endTimers
          /\ UNCHANGED << endedCount, appState, finalTranscript >>]_vars
  /\ [][endedCount' # endedCount =>
          \/ \E h \in endTimers : EndTimerFire(h)
          \/ EndLessonClick]_vars

\* a turn whose tutor text has an end phrase in other letter case, followed
\* by other characters, was committed and the end is scheduled, not yet run
C14_Witness ==
  /\ turnCommitted
  /\ lastTutorPartial = <<"G","o","o","d","B","y","e","!">>
  /\ transcriptionHistory \in endTimers
  /\ endedCount = 0
  /\ appState = "conversation"

\* the recap of a log: its entries in order, each as a labelled line
RecapOf(log) ==
  [ i \in DOMAIN log |->
      [ who |-> IF log[i].speaker = "user" THEN "Student" ELSE "Tutor",
        text |-> log[i].text ] ]

\* a connect is made in this step: a session is created
Connects == Len(sessions') = Len(sessions) + 1

\* C15: a connect made with the attempt counter above 0 and a non-empty
\* committed log opens its session with the recap of the whole log, in log
\* order; a connect made with the counter at 0 or an empty log opens it with
\* the base instruction only.
C15_ReconnectCarriesRecap ==
  [][Connects =>
       sessions'[Len(sessions')].recap =
         IF reconnectAttempts > 0 /\ transcriptionHistory # << >>
         THEN RecapOf(transcriptionHistory)
         ELSE << >>]_vars

\* C16: whenever the end-of-lesson callback is invoked, by the End Lesson
\* action or by an end-of-lesson timer, the transcript handed over is the
\* committed log of that moment followed by one student entry exactly when the
\* student partial buffer is non-empty; the tutor partial is not included.
C16_FinalTranscript ==
  [][endedCount' = endedCount + 1 =>
       Said(finalTranscript') =
         Said(transcriptionHistory)
           \o (IF currentUserTranscriptRef # EmptyText
               THEN << [speaker |-> "user",
                        text |-> currentUserTranscriptRef] >>
               ELSE << >>)]_vars

\* A run of startConversation begins: on mount or from a backoff timer.
ConnectStart ==
  \/ Mount
  \/ \E d \in BagToSet(backoffTimers) : BackoffTimerFire(d)

\* C17 (as claimed): the connection state moves only along idle ->
\* connecting -> connected -> (reconnecting -> connecting)* -> idle, with
\* failures leading to reconnecting, and into error; connected is entered only
\* from connecting and error only with the attempt counter at the maximum.
C17_StateEdges ==
  [][connectionState' # connectionState =>
       \/ connectionState' = "idle"
       \/ connectionState = "idle" /\ connectionState' = "connecting"
       \/ connectionState = "connecting" /\ connectionState' = "connected"
       \/ /\ connectionState \in {"connecting", "connected"}
          /\ connectionState' = "reconnecting"
       \/ connectionState = "reconnecting" /\ connectionState' = "connecting"
       \/ /\ connectionState' = "error"
          /\ reconnectAttempts' = MAX_RECONNECT_ATTEMPTS]_vars

\* C17 (amended): the connection state changes to connecting only when a
\* connect starts with the attempt counter at 0, to reconnecting only when a
\* connect starts with the counter above 0 or the failure path runs below the
\* maximum, to connected only by an open callback, to error only by the
\* failure path with the counter at the maximum, and to idle only by the final
\* teardown; it never moves from reconnecting to connecting.
C17_StateChanges ==
  /\ [][connectionState' # connectionState =>
          /\ connectionState' = "connecting" =>
               ConnectStart /\ reconnectAttempts = 0
          /\ connectionState' = "reconnecting" =>
               \/ ConnectStart /\ reconnectAttempts > 0
               \/ FailureRun /\ reconnectAttempts < MAX_RECONNECT_ATTEMPTS
          /\ connectionState' = "connected" =>
               \E s \in SessionIds : OnOpen(s)
          /\ connectionState' = "error" =>
               /\ FailureRun
               /\ reconnectAttempts = MAX_RECONNECT_ATTEMPTS
               /\ reconnectAttempts' = MAX_RECONNECT_ATTEMPTS
          /\ connectionState' = "idle" =>
               phase = "mounted" /\ phase' = "unmounted"]_vars
  /\ [][~(connectionState = "reconnecting"
           /\ connectionState' = "connecting")]_vars

\* a reconnect has opened its session and still shows reconnecting, one step
\* before the open callback
C17_Witness ==
  /\ connectionState = "reconnecting"
  /\ reconnectAttempts > 0
  /\ sessionPromise # 0
  /\ sessions[sessionPromise].status = "pending"

\* C18: the summarizer invoked with an empty transcript shows the fixed
\* no-conversation message and makes no request; invoked with a non-empty one
\* it makes exactly one request, whose outcome is the response text or the
\* fixed fallback string.
C18_FeedbackOfEmptyLog ==
  /\ [][feedbackCalls' # feedbackCalls =>
          /\ feedbackCalls' = feedbackCalls + 1
          /\ IF finalTranscript = << >>
             THEN /\ feedback' = "noConversation"
                  /\ feedbackRequests' = feedbackRequests
                  /\ feedbackPending' = feedbackPending
             ELSE /\ feedback' = feedback
                  /\ feedbackRequests' = feedbackRequests + 1
                  /\ feedbackPending' = feedbackPending + 1]_vars
  /\ [][feedbackCalls' = feedbackCalls =>
          /\ feedbackRequests' = feedbackRequests
          /\ feedbackPending' <= feedbackPending
          /\ feedbackPending' < feedbackPending =>
               /\ feedbackPending' = feedbackPending - 1
               /\ feedback' \in {"text", "fallback"}
          /\ feedbackPending' = feedbackPending => feedback' = feedback]_vars

\* the summarizer has run on an empty transcript
C18_Witness ==
  /\ feedbackCalls = 1
  /\ finalTranscript = << >>
  /\ feedback = "noConversation"
  /\ feedbackRequests = 0

\* C19: the summarizer is invoked at most once, and not before the session
\* manager has handed over its final transcript.
C19_SummarizerOnce ==
  /\ feedbackCalls <= 1
  /\ feedbackCalls > 0 => endedCount > 0

\* no two entries of a log have the same id
UniqueIds(log) ==
  \A i, j \in DOMAIN log : i # j => log[i].id # log[j].id

\* C20: the entries of the transcript log, and of the final transcript handed
\* to the application, have pairwise distinct ids.
C20_UniqueIds ==
  /\ UniqueIds(transcriptionHistory)
  /\ UniqueIds(finalTranscript)

\* C21: a partial that belongs to a turn already closed by its turn-complete
\* and arrives after it leaves both partial buffers as they are: it does not
\* fill a cleared buffer, and its text is not what the next turn-complete
\* commits.
C21_LatePartialIgnored ==
  [][ latePartial' =>
        /\ currentUserTranscriptRef' = currentUserTranscriptRef
        /\ currentGeminiTranscriptRef' = currentGeminiTranscriptRef ]_vars

\* A callback of a session on which close() was already issued is delivered.
StaleCallback ==
  \E s \in SessionIds : sessions[s].closeReq /\ sessions'[s] # sessions[s]

\* C22: a callback (open, message, error, close) still in flight from a
\* session that was torn down is a no-op: it changes neither the connection
\* state, the attempt counter, the log nor the partial buffers, schedules no
\* playback, and starts no teardown or reconnect.
C22_StaleCallbacksAreNoOps ==
  [][ StaleCallback =>
        UNCHANGED << connectionState, reconnectAttempts, transcriptionHistory,
                     currentUserTranscriptRef, currentGeminiTranscriptRef,
                     audioSources, nextStartTime, sessionPromise, mediaStream,
                     streams, backoffTimers, mediaPending >> ]_vars

\* The second signal of one failure: a session whose error signal was already
\* handled closes, or its connect promise rejects.
SecondSignal ==
  \E s \in SessionIds :
    /\ sessions[s].errored
    /\ sessions[s].status # "closed"
    /\ sessions'[s].status = "closed"

\* C23: a failure reported by more than one signal (the transport error, then
\* the unclean close or the rejected connect of the same session) runs the
\* failure path once: the second signal leaves the attempt counter, the
\* pending backoff timers and the connection state as they are.
C23_OneFailureRunPerFailure ==
  [][ SecondSignal =>
        UNCHANGED << reconnectAttempts, backoffTimers, connectionState >> ]_vars

\* The timer a step adds to the pending backoff timers.
TimerSet(d) == backoffTimers' = backoffTimers (+) SetToBag({d})

\* C24: the delay of the timer the failure path sets is 2^(attempts-1)
\* seconds, attempts being the counter after the increment: 1 s, 2 s and 4 s
\* for the first, second and third failure in a row; no pending timer has a
\* delay of 0 or of more than 4 s.
C24_BackoffDelay ==
  /\ [](\A d \in BagToSet(backoffTimers) : d > 0 /\ d <= 4000)
  /\ [][FailureRun /\ ConnectScheduled =>
          /\ TimerSet(2 ^ (reconnectAttempts' - 1) * 1000)
          /\ failuresInRow' = 1 => TimerSet(1000)
          /\ failuresInRow' = 2 => TimerSet(2000)
          /\ failuresInRow' = 3 => TimerSet(4000)]_vars

\* the timer of the third failure in a row is pending
C24_Witness ==
  /\ failuresInRow = 3
  /\ reconnectAttempts = 3
  /\ 4000 \in BagToSet(backoffTimers)

\* What teardown leaves alone: the attempt counter, the log, the two buffers.
Kept(r) ==
  << r.reconnectAttempts, r.transcriptionHistory,
     r.currentUserTranscriptRef, r.currentGeminiTranscriptRef >>

\* The final teardown runs: the component leaves the tree.
Unmounts == phase = "mounted" /\ phase' = "unmounted"

\* C25: teardown with the final-cleanup flag sets the connection state to
\* idle, teardown without it leaves the connection state; either leaves the
\* attempt counter, the log and both partial buffers as they are.
C25_TeardownFrame ==
  /\ [](/\ stopConversation(Cur, TRUE).connectionState = "idle"
        /\ stopConversation(Cur, FALSE).connectionState = connectionState
        /\ \A isFinalCleanup \in BOOLEAN :
              Kept(stopConversation(Cur, isFinalCleanup)) = Kept(Cur))
  /\ [][Unmounts =>
          /\ connectionState' = "idle"
          /\ UNCHANGED << reconnectAttempts, transcriptionHistory,
                          currentUserTranscriptRef,
                          currentGeminiTranscriptRef >>]_vars

\* the final teardown has run on a failed session with a committed log and a
\* student partial in its buffer
C25_Witness ==
  /\ phase = "unmounted"
  /\ connectionState = "idle"
  /\ reconnectAttempts > 0
  /\ Len(transcriptionHistory) > 0
  /\ currentUserTranscriptRef # EmptyText

\* C26: whenever the connection state is connected a session handle is held
\* and its session is open: neither closed by the remote side nor torn down.
C26_ConnectedHasOpenSession ==
  connectionState = "connected" =>
    /\ sessionPromise # 0
    /\ sessions[sessionPromise].status = "open"
    /\ ~sessions[sessionPromise].closeReq

\* The view changes of the shell.
ViewEdges ==
  { << "welcome", "conversation" >>, << "conversation", "feedback" >>,
    << "feedback", "welcome" >> }

\* C27: the view of the shell changes only along welcome -> conversation ->
\* feedback -> welcome, and in the welcome view no end-of-lesson callback of
\* an earlier lesson changes the final transcript.
C27_ViewEdges ==
  [][ /\ appState' # appState => << appState, appState' >> \in ViewEdges
      /\ appState = "welcome" => finalTranscript' = finalTranscript ]_vars

====
